---------------------------- MODULE Spec2Model ----------------------------
(***************************************************************************)
(* A model of SysWhispers2's generator, src/syswhispers.py: the class      *)
(* SysWhispers (generate, _get_typedefs, _get_function_prototype,          *)
(* _get_function_hash, _get_function_asm_code).                            *)
(*                                                                         *)
(* Strings the code indexes or rewrites (function names, the prefix) are   *)
(* sequences of character codes, so that str.replace and the two-byte      *)
(* slices of the hasher are computed as the code computes them.  Type      *)
(* names and definition texts, which the code only compares, are strings.  *)
(* Python integers are unbounded: a value is a record [hi, lo] standing    *)
(* for hi * 2^16 + lo with lo < 2^16 and hi any natural number.            *)
(***************************************************************************)
EXTENDS Integers, Sequences, FiniteSets, TLC

VARIABLES
    function_prefix,   \* self.__function_prefix
    seed,              \* self.seed
    typedefs,          \* self.typedefs
    prototypes,        \* self.prototypes, an insertion-ordered dict
    architecture,      \* args.architecture
    budget,            \* generate calls the driver has still to make
    pc,                \* position inside generate ("idle": no call running)
    err,               \* the exception that ended the last call, or "none"
    function_names,    \* generate's local function_names
    original_names,    \* function_names as they were before the prefix rewrite
    last_renamed,      \* the names the last completed prefix rewrite returned
    files,             \* the output files: kind -> Absent or the content
    typedef_layers,    \* _get_typedefs' typedef_layers, layer i at index i+1
                       \* (a layer above 0 is held in the order Listed gives
                       \* it: list(set(...)) fixes none, see TypedefCodes)
    typedef_code,      \* the list _get_typedefs returned
    hash_log           \* per stub of the last asm file: the hasher's steps

vars == <<function_prefix, seed, typedefs, prototypes, architecture, budget,
          pc, err, function_names, original_names, last_renamed, files,
          typedef_layers, typedef_code, hash_log>>

-----------------------------------------------------------------------------
(* Bounds of the model.                                                    *)

\* generate calls made on one instance
MaxCalls == 2
\* names in one requested function list
MaxRequest == 1
\* dependency entries a drawn type catalog adds to its base
MaxEdges == 1
\* layers after which the model stops following a dependency cycle
MaxLayers == 5

-----------------------------------------------------------------------------
(* Character strings.                                                      *)

\* 'Nt', the canonical prefix of lines 25 and 28
Nt == <<78, 116>>
\* 'Zw', the prefix hashed, line 146
Zw == <<90, 119>>
\* '\0', the terminator appended at line 146
Nul == <<0>>

\* The least index at which old occurs in s, 0 when it does not (str.find + 1).
Find(s, old) ==
    LET at == {k \in 1..(Len(s) + 1) :
                 /\ k + Len(old) - 1 <= Len(s)
                 /\ SubSeq(s, k, k + Len(old) - 1) = old}
    IN  IF at = {} THEN 0 ELSE CHOOSE k \in at : \A m \in at : k <= m

\* s.replace(old, new, 1)
Replace1(s, old, new) ==
    LET k == Find(s, old)
    IN  IF k = 0 THEN s
        ELSE SubSeq(s, 1, k - 1) \o new \o SubSeq(s, k + Len(old), Len(s))

Contains(s, old) == Find(s, old) # 0

StartsWith(s, p) == Len(p) <= Len(s) /\ SubSeq(s, 1, Len(p)) = p

Range(s) == {s[k] : k \in 1..Len(s)}

-----------------------------------------------------------------------------
(* The prototypes dict: a sequence of [name, params] in insertion order.   *)

Keys(d) == {d[k].name : k \in 1..Len(d)}

KeyList(d) == [k \in 1..Len(d) |-> d[k].name]

Lookup(d, n) == (CHOOSE e \in Range(d) : e.name = n).params

\* d[n] = v : in place when n is a key, appended otherwise
DictSet(d, n, v) ==
    IF n \in Keys(d)
    THEN [k \in 1..Len(d) |-> IF d[k].name = n THEN [name |-> n, params |-> v] ELSE d[k]]
    ELSE Append(d, [name |-> n, params |-> v])

\* del d[n]
DictDel(d, n) == SelectSeq(d, LAMBDA e : e.name # n)

-----------------------------------------------------------------------------
(* Unbounded naturals as [hi, lo], and the hasher's arithmetic.            *)

Val(h, l) == [hi |-> h, lo |-> l]

RECURSIVE BitXor(_, _)
BitXor(a, b) ==
    IF a = 0 THEN b
    ELSE IF b = 0 THEN a
    ELSE ((a + b) % 2) + 2 * BitXor(a \div 2, b \div 2)

RECURSIVE BitOr(_, _)
BitOr(a, b) ==
    IF a = 0 THEN b
    ELSE IF b = 0 THEN a
    ELSE (IF a % 2 = 1 \/ b % 2 = 1 THEN 1 ELSE 0) + 2 * BitOr(a \div 2, b \div 2)

\* a ^ b
Xor(a, b) == Val(BitXor(a.hi, b.hi), BitXor(a.lo, b.lo))

\* (v >> 8) & (2 ** 32 - 1)
ShiftRight8Masked(v) ==
    Val((v.hi \div 256) % 65536, (v.hi % 256) * 256 + (v.lo \div 256))

\* (v << 24) & (2 ** 32 - 1): the low byte of v, moved to bits 24..31
ShiftLeft24Masked(v) == Val((v.lo % 256) * 256, 0)

\* the lambda ror8 of line 147
ror8(v) ==
    LET r == ShiftRight8Masked(v)
        l == ShiftLeft24Masked(v)
    IN  Val(BitOr(r.hi, l.hi), BitOr(r.lo, l.lo))

\* partial_name_short + ror8(hash): Python's addition, which does not wrap
Plus(p, v) == Val(v.hi + ((p + v.lo) \div 65536), (p + v.lo) % 65536)

\* the value fits 32 bits
IsU32(v) == v.hi < 65536

RECURSIVE HexDigits(_)
HexDigits(n) == IF n < 16 THEN 1 ELSE 1 + HexDigits(n \div 16)

\* the number of hex digits f'{v:08X}' renders
HexWidth(v) == IF IsU32(v) THEN 8 ELSE 8 + HexDigits(v.hi \div 65536)

-----------------------------------------------------------------------------
(* _get_function_hash, lines 144-153.                                      *)

\* Segments with the slices taken two characters apart: range(0, len(name), 2)
SegmentsDisjoint(name) ==
    [k \in 1..(Len(name) \div 2) |-> SubSeq(name, 2 * k - 1, 2 * k)]

\* [name[i:i + 2] for i in range(len(name))] with the slices of length 2 kept
Segments(name) == [k \in 1..(Len(name) - 1) |-> SubSeq(name, k, k + 1)]

\* struct.unpack('<H', segment.encode())[0], for two ASCII characters
Unpack(segment) == segment[1] + 256 * segment[2]

\* hash ^= partial_name_short + ror8(hash)
HashStep(hash, partial_name_short) == Xor(hash, Plus(partial_name_short, ror8(hash)))

\* the accumulator after each segment of units, starting from hash
RECURSIVE Accumulate(_, _)
Accumulate(hash, units) ==
    IF units = <<>> THEN <<>>
    ELSE LET h == HashStep(hash, Head(units))
         IN  <<h>> \o Accumulate(h, Tail(units))

\* HashedName without the replace: the name is hashed as the stub spells it
HashedNameAsSpelled(prefix, function_name) == function_name \o Nul

\* function_name.replace(self.__function_prefix, 'Zw', 1) + '\0'
HashedName(prefix, function_name) == Replace1(function_name, prefix, Zw) \o Nul

\* One run of _get_function_hash: the name hashed, the units folded, the
\* accumulator after each, and the value returned.
HashRun(prefix, seedv, function_name) ==
    LET name  == HashedName(prefix, function_name)
        segs  == Segments(name)
        units == [k \in 1..Len(segs) |-> Unpack(segs[k])]
        accs  == Accumulate(seedv, units)
    IN  [function_name |-> function_name,
         name  |-> name,
         units |-> units,
         accs  |-> accs,
         hash  |-> IF accs = <<>> THEN seedv ELSE accs[Len(accs)]]

_get_function_hash(prefix, seedv, function_name) ==
    HashRun(prefix, seedv, function_name).hash

\* _get_function_asm_code, lines 155-199: the text varies only in the label
\* (PROC and ENDP) and the hash, rendered by {function_hash:08X}
_get_function_asm_code(prefix, seedv, function_name) ==
    LET h == _get_function_hash(prefix, seedv, function_name)
    IN  [label |-> function_name, hash |-> h, hex_width |-> HexWidth(h)]

-----------------------------------------------------------------------------
(* _get_typedefs, lines 84-121.  A typedef is addressed by its index in    *)
(* self.typedefs, from 1 here.  The dependencies of a typedef are a set:   *)
(* the code only concatenates them and passes the list through set().      *)

Matches(n) == {j \in 1..Len(typedefs) : n \in typedefs[j].identifiers}

\* _names_to_ids with next(..., None) and the misses dropped
_names_to_ids_skipping(names) ==
    LET found == SelectSeq(names, LAMBDA n : Matches(n) # {})
    IN  [ok  |-> TRUE,
         ids |-> [k \in 1..Len(found) |->
                    CHOOSE j \in Matches(found[k]) : \A m \in Matches(found[k]) : j <= m]]

\* _names_to_ids: next(...) of the first match of each name; next raises
\* StopIteration when a name has none
_names_to_ids(names) ==
    LET hit == {k \in 1..Len(names) : Matches(names[k]) # {}}
        first(n) == CHOOSE j \in Matches(n) : \A m \in Matches(n) : j <= m
    IN  [ok  |-> \A k \in 1..Len(names) : k \in hit,
         ids |-> [k \in 1..Len(names) |-> IF k \in hit THEN first(names[k]) ELSE 0]]

RECURSIVE Flatten(_)
Flatten(ss) == IF ss = <<>> THEN <<>> ELSE Head(ss) \o Flatten(Tail(ss))

\* lines 89-94: the parameter types that some typedef satisfies, each once,
\* in the order met
RECURSIVE CollectUsed(_, _)
CollectUsed(types, used) ==
    IF types = <<>> THEN used
    ELSE CollectUsed(Tail(types),
                     IF Matches(Head(types)) # {} /\ Head(types) \notin Range(used)
                     THEN Append(used, Head(types)) ELSE used)

used_typedefs(names) ==
    CollectUsed(Flatten([k \in 1..Len(names) |-> Lookup(prototypes, names[k])]), <<>>)

\* more_dependencies with = for += at line 103: the last typedef's only
more_dependencies_of_last(layer) ==
    IF layer = <<>> THEN {} ELSE typedefs[layer[Len(layer)]].dependencies

\* lines 101-104: the dependencies of a layer, duplicates removed
more_dependencies(layer) == UNION {typedefs[j].dependencies : j \in Range(layer)}

\* every order a set may be listed or iterated in
Orders(S) == {s \in [1..Cardinality(S) -> S] : Range(s) = S}

\* The list a layer above 0 is held as while the loop runs.  Line 104 lists
\* a set of names, in an order Python leaves open; that order shows only in
\* the deepest layer when the code is built, and is drawn there.
Listed(names) ==
    SelectSeq(<<"A", "A2", "B", "C", "D", "X">>, LAMBDA n : n \in names)

\* lines 112-113: layer k loses what layer k + 1 holds; the deepest layer
\* stays the list it was built as
RemoveDuplicates(layers) ==
    [k \in 1..(Len(layers) - 1) |-> Range(layers[k]) \ Range(layers[k + 1])]

\* EmitOrder walking up from layer 0: range(len(typedef_layers))
EmitOrderShallowFirst(n) == [k \in 1..n |-> k]

\* the layers in the order lines 118-120 walk them
EmitOrder(n) == [k \in 1..n |-> n + 1 - k]

\* the lists the deepest layer can be: layer 0 as lines 89-98 built it, a
\* layer above 0 as line 109 maps any listing of the dependencies below it
DeepestLists(layers) ==
    IF Len(layers) = 1 THEN {layers[1]}
    ELSE {_names_to_ids(listed).ids :
             listed \in Orders(more_dependencies(layers[Len(layers) - 1]))}

\* every list lines 116-121 can build: the layers in EmitOrder, a set layer
\* in any order, the deepest layer in its list order
RECURSIVE CodesOf(_, _, _)
CodesOf(layers, sets, order) ==
    IF order = <<>> THEN {<<>>}
    ELSE LET k    == Head(order)
             here == IF k = Len(layers) THEN DeepestLists(layers) ELSE Orders(sets[k])
         IN  {[m \in 1..Len(ids) |-> typedefs[ids[m]].definition] \o rest :
                 ids \in here, rest \in CodesOf(layers, sets, Tail(order))}

TypedefCodes(layers) == CodesOf(layers, RemoveDuplicates(layers), EmitOrder(Len(layers)))

\* _get_function_prototype, lines 123-142: the signature names the function
\* and lists its parameters
_get_function_prototype(function_name) ==
    [name |-> function_name, params |-> Lookup(prototypes, function_name)]

-----------------------------------------------------------------------------
(* generate, lines 18-82, one action per block of the method.              *)

\* a file that open() has not created
Absent == [exists |-> FALSE]

NoFiles == [k \in {"c", "asm", "h"} |-> Absent]

\* a name that is no key of any prototype catalog of the model
Unknown == <<85>>

\* the function lists a caller can pass: keys of the catalog as it stands
\* and the unknown name, up to MaxRequest of them
Requests ==
    UNION {[1..n -> Keys(prototypes) \cup {Unknown}] : n \in 0..MaxRequest}

\* The driver calls generate(function_names, basename).
Call(names) ==
    /\ pc \in {"idle", "done", "failed"}
    /\ budget > 0
    /\ budget' = budget - 1
    /\ pc' = "validate"
    /\ err' = "none"
    /\ function_names' = names
    /\ original_names' = <<>>
    /\ typedef_layers' = <<>>
    /\ typedef_code' = <<>>
    /\ UNCHANGED <<function_prefix, seed, typedefs, prototypes, architecture,
                   last_renamed, files, hash_log>>

\* Validate without the elif of lines 21-22
ValidateUnchecked ==
    /\ pc = "validate"
    /\ function_names' = IF function_names = <<>> THEN KeyList(prototypes) ELSE function_names
    /\ pc' = "rewrite"
    /\ original_names' = function_names'
    /\ UNCHANGED <<function_prefix, seed, typedefs, prototypes, architecture,
                   budget, err, last_renamed, files, typedef_layers, typedef_code,
                   hash_log>>

\* lines 19-22
Validate ==
    /\ pc = "validate"
    /\ IF function_names = <<>>
       THEN /\ function_names' = KeyList(prototypes)
            /\ pc' = "rewrite"
            /\ err' = err
       ELSE IF \E k \in 1..Len(function_names) : function_names[k] \notin Keys(prototypes)
       THEN /\ function_names' = function_names
            /\ pc' = "failed"
            /\ err' = "ValueError: prototypes not available"
       ELSE /\ function_names' = function_names
            /\ pc' = "rewrite"
            /\ err' = err
    /\ original_names' = function_names'
    /\ UNCHANGED <<function_prefix, seed, typedefs, prototypes, architecture,
                   budget, last_renamed, files, typedef_layers, typedef_code,
                   hash_log>>

\* RenameEntry without the test of line 29
RenameEntryAlways(protos, function_name, new_function_name) ==
    DictDel(DictSet(protos, new_function_name, Lookup(protos, function_name)),
            function_name)

\* lines 29-31: the entry of function_name moves under new_function_name
RenameEntry(protos, function_name, new_function_name) ==
    IF new_function_name # function_name
    THEN DictDel(DictSet(protos, new_function_name, Lookup(protos, function_name)),
                 function_name)
    ELSE protos

\* lines 26-32, from the k-th name on: the catalog and the new names, or the
\* KeyError of line 30 when the entry to move is gone
RECURSIVE RewriteLoop(_, _, _, _)
RewriteLoop(protos, names, k, new_function_names) ==
    IF k > Len(names)
    THEN [prototypes |-> protos, names |-> new_function_names, err |-> "none"]
    ELSE LET function_name     == names[k]
             new_function_name == Replace1(function_name, Nt, function_prefix)
         IN  IF new_function_name # function_name /\ function_name \notin Keys(protos)
             THEN [prototypes |-> protos, names |-> names, err |-> "KeyError"]
             ELSE RewriteLoop(RenameEntry(protos, function_name, new_function_name),
                              names, k + 1,
                              Append(new_function_names, new_function_name))

\* lines 24-34
Rewrite ==
    /\ pc = "rewrite"
    /\ LET r == IF function_prefix # Nt
                THEN RewriteLoop(prototypes, function_names, 1, <<>>)
                ELSE [prototypes |-> prototypes, names |-> function_names, err |-> "none"]
       IN  /\ prototypes' = r.prototypes
           /\ function_names' = r.names
           /\ err' = r.err
           /\ pc' = IF r.err = "none" THEN "write_c" ELSE "failed"
           /\ last_renamed' = IF r.err = "none" THEN r.names ELSE last_renamed
    /\ UNCHANGED <<function_prefix, seed, typedefs, architecture, budget,
                   original_names, files, typedef_layers, typedef_code, hash_log>>

\* lines 36-41: base.c with <BASENAME> substituted
WriteC ==
    /\ pc = "write_c"
    /\ files' = [files EXCEPT !["c"] = [exists |-> TRUE, text |-> "base.c"]]
    /\ pc' = "write_asm"
    /\ UNCHANGED <<function_prefix, seed, typedefs, prototypes, architecture,
                   budget, err, function_names, original_names, last_renamed,
                   typedef_layers, typedef_code, hash_log>>

\* lines 43-56: open() creates the file, then the architecture is looked at
WriteAsm ==
    /\ pc = "write_asm"
    /\ IF architecture \in {"x64", "x86_64"}
       THEN /\ files' = [files EXCEPT !["asm"] =
                   [exists |-> TRUE, preamble |-> architecture,
                    stubs |-> [k \in 1..Len(function_names) |->
                        _get_function_asm_code(function_prefix, seed, function_names[k])],
                    end |-> TRUE]]
            /\ hash_log' = [k \in 1..Len(function_names) |->
                               HashRun(function_prefix, seed, function_names[k])]
            /\ pc' = "write_header"
            /\ err' = err
       ELSE /\ files' = [files EXCEPT !["asm"] =
                   [exists |-> TRUE, preamble |-> "", stubs |-> <<>>, end |-> FALSE]]
            /\ hash_log' = <<>>
            /\ pc' = "failed"
            /\ err' = "ValueError: invalid architecture"
    /\ UNCHANGED <<function_prefix, seed, typedefs, prototypes, architecture,
                   budget, function_names, original_names, last_renamed,
                   typedef_layers, typedef_code>>

\* lines 58-66, and _get_typedefs up to its loop, lines 89-98
OpenHeader ==
    /\ pc = "write_header"
    /\ files' = [files EXCEPT !["h"] =
            [exists |-> TRUE, seed |-> seed, typedefs |-> <<>>, prototypes |-> <<>>,
             endif |-> FALSE]]
    /\ IF \A k \in 1..Len(function_names) : function_names[k] \in Keys(prototypes)
       THEN /\ typedef_layers' = <<_names_to_ids(used_typedefs(function_names)).ids>>
            /\ pc' = "resolve"
            /\ err' = err
       ELSE /\ typedef_layers' = typedef_layers
            /\ pc' = "failed"
            /\ err' = "KeyError"
    /\ UNCHANGED <<function_prefix, seed, typedefs, prototypes, architecture,
                   budget, function_names, original_names, last_renamed,
                   typedef_code, hash_log>>

\* One pass of the loop of lines 99-114.  A pass that finds dependencies adds
\* their layer, or ends in the StopIteration of _names_to_ids.  The pass that
\* finds none leaves the loop, and lines 116-121 and 68-77 follow: the
\* typedefs, the prototypes and the #endif go into the header.
ResolveLayer ==
    /\ pc = "resolve"
    /\ Len(typedef_layers) < MaxLayers
    /\ LET deps == more_dependencies(typedef_layers[Len(typedef_layers)])
       IN  IF deps # {}
           THEN   LET r == _names_to_ids(Listed(deps))
                  IN  /\ typedef_layers' =
                            IF r.ok THEN Append(typedef_layers, r.ids) ELSE typedef_layers
                      /\ pc' = IF r.ok THEN "resolve" ELSE "failed"
                      /\ err' = IF r.ok THEN err ELSE "StopIteration"
                      /\ UNCHANGED <<typedef_code, files>>
           ELSE \E code \in TypedefCodes(typedef_layers) :
                  /\ typedef_code' = code
                  /\ files' = [files EXCEPT !["h"] =
                        [@ EXCEPT !.typedefs = code,
                                  !.prototypes = [k \in 1..Len(function_names) |->
                                        _get_function_prototype(function_names[k])],
                                  !.endif = TRUE]]
                  /\ pc' = "done"
                  /\ UNCHANGED <<typedef_layers, err>>
    /\ UNCHANGED <<function_prefix, seed, typedefs, prototypes, architecture,
                   budget, function_names, original_names, last_renamed, hash_log>>

Next ==
    \/ \E names \in Requests : Call(names)
    \/ Validate
    \/ Rewrite
    \/ WriteC
    \/ WriteAsm
    \/ OpenHeader
    \/ ResolveLayer

-----------------------------------------------------------------------------
(* The states after __init__, lines 11-16, and the inputs drawn.           *)

\* data/prototypes.json: three functions; "X" is a type no typedef names
NtA == <<78, 116, 65>>
NtAB == <<78, 116, 65, 66>>
NtANt == <<78, 116, 65, 78, 116>>

Prototypes0 ==
    << [name |-> NtA,   params |-> <<"A", "X">>],
       [name |-> NtAB,  params |-> <<"C", "A2">>],
       [name |-> NtANt, params |-> <<>>] >>

\* data/typedefs.json: four definitions, the first under two names
Identifiers == << {"A", "A2"}, {"B"}, {"C"}, {"D"} >>

DependencyNames == {"A", "B", "C", "D", "X"}

Edges == (1..Len(Identifiers)) \X DependencyNames

Catalog(E) ==
    [j \in 1..Len(Identifiers) |->
        [identifiers  |-> Identifiers[j],
         dependencies |-> {n \in DependencyNames : <<j, n>> \in E},
         definition   |-> CHOOSE n \in Identifiers[j] : \A m \in Identifiers[j] : Len(n) <= Len(m)]]

\* A needs B, B needs C
ChainEdges == {<<1, "B">>, <<2, "C">>}

Chain == Catalog(ChainEdges)

\* the sets of at most n dependency entries
RECURSIVE EdgeSets(_)
EdgeSets(n) ==
    IF n = 0 THEN {{}}
    ELSE LET fewer == EdgeSets(n - 1)
         IN  fewer \cup {F \cup {e} : F \in fewer, e \in Edges}

\* no dependencies at all, or the chain, and up to MaxEdges dependencies more
Catalogs == {Catalog(B \cup E) : B \in {{}, ChainEdges}, E \in EdgeSets(MaxEdges)}

\* random.randint(2 ** 28, 2 ** 32 - 1), line 14
Seeds == {Val(h, l) : h \in {4096, 4660, 65416, 65535}, l \in {0, 22136, 42495, 65535}}

Prefixes == {Nt, Zw, <<65, 78, 116>>, <<>>}

Architectures == {"x64", "x86_64", "arm"}

InitWith(prefixes, seeds, catalogs, archs, calls) ==
    /\ function_prefix \in prefixes
    /\ seed \in seeds
    /\ typedefs \in catalogs
    /\ prototypes = Prototypes0
    /\ architecture \in archs
    /\ budget = calls
    /\ pc = "idle"
    /\ err = "none"
    /\ function_names = <<>>
    /\ original_names = <<>>
    /\ last_renamed = <<>>
    /\ files = NoFiles
    /\ typedef_layers = <<>>
    /\ typedef_code = <<>>
    /\ hash_log = <<>>

\* generate, over the prefixes, the architectures and repeated calls
Init == InitWith(Prefixes, {Val(4660, 22136)}, {Chain}, Architectures, MaxCalls)

Spec == Init /\ [][Next]_vars

\* one call, over the type catalogs
InitTypedefs == InitWith({Nt}, {Val(4660, 22136)}, Catalogs, {"x64"}, 1)

SpecTypedefs == InitTypedefs /\ [][Next]_vars

\* one call, over the seeds and the prefixes
InitHash == InitWith(Prefixes, Seeds, {Chain}, {"x64", "x86_64"}, 1)

SpecHash == InitHash /\ [][Next]_vars

-----------------------------------------------------------------------------
(* What the properties below speak of.                                     *)

ValidArchitecture == architecture \in {"x64", "x86_64"}

\* the typedef a name resolves to: the first that lists it
Resolved(n) == CHOOSE j \in Matches(n) : \A m \in Matches(n) : j <= m

\* the typedefs a typedef depends on, through the names that resolve
DependsOn(j) == {Resolved(n) : n \in {m \in typedefs[j].dependencies : Matches(m) # {}}}

\* S and everything S needs, directly or through dependencies
RECURSIVE Closure(_, _)
Closure(S, n) ==
    IF n = 0 THEN S ELSE Closure(S \cup UNION {DependsOn(j) : j \in S}, n - 1)

Needed(S) == Closure(S, Len(typedefs))

\* the typedefs the parameters of the requested functions name (layer 0)
Layer0 ==
    {Resolved(t) : t \in {u \in UNION {Range(Lookup(prototypes, f)) :
                                         f \in Range(function_names) \cap Keys(prototypes)} :
                            Matches(u) # {}}}

\* a dependency cycle can be reached from layer 0
CycleReachable ==
    \E j \in Needed(Layer0) : j \in Closure(DependsOn(j), Len(typedefs))

\* a dependency name that no typedef lists can be reached from layer 0
UnmatchedReachable ==
    \E j \in Needed(Layer0) : \E n \in typedefs[j].dependencies : Matches(n) = {}

\* the longest dependency chain below j, in dependencies followed
RECURSIVE Depth(_)
Depth(j) ==
    IF DependsOn(j) = {} THEN 0
    ELSE 1 + (CHOOSE d \in {Depth(k) : k \in DependsOn(j)} :
                 \A e \in {Depth(k) : k \in DependsOn(j)} : e <= d)

LongestChain ==
    IF Layer0 = {} THEN 0
    ELSE CHOOSE d \in {Depth(j) : j \in Layer0} : \A e \in {Depth(j) : j \in Layer0} : e <= d

Positions(text) == {p \in 1..Len(typedef_code) : typedef_code[p] = text}

InGetTypedefs == typedef_layers # <<>>

-----------------------------------------------------------------------------
(* C1: when generate runs with an architecture other than 'x64' and        *)
(* 'x86_64', the error is raised with no output file created or written.   *)
C1_BadArchitectureWritesNothing ==
    (~ValidArchitecture /\ pc = "failed" /\ err = "ValueError: invalid architecture")
        => files = NoFiles

(* C2: a non-empty request holding a name that is no key of the prototype  *)
(* catalog fails in the validation step itself, with the files and the     *)
(* catalog as they were: nothing is opened or written and the prefix       *)
(* rewrite has not run.                                                    *)
C2_UnknownNameFailsFirst ==
    [][(/\ pc = "validate"
        /\ function_names # <<>>
        /\ \E k \in 1..Len(function_names) : function_names[k] \notin Keys(prototypes))
       => (/\ pc' = "failed"
           /\ err' = "ValueError: prototypes not available"
           /\ files' = files
           /\ prototypes' = prototypes)]_vars

C2_Witness ==
    /\ pc = "failed"
    /\ err = "ValueError: prototypes not available"
    /\ Unknown \in Range(function_names)

(* C3: the list _get_typedefs returns holds the definition of every needed *)
(* typedef exactly once.                                                   *)
C3_EachDefinitionOnce ==
    pc = "done" =>
        /\ \A j \in Needed(Layer0) : Cardinality(Positions(typedefs[j].definition)) = 1
        /\ \A p \in 1..Len(typedef_code) :
               \E j \in Needed(Layer0) : typedef_code[p] = typedefs[j].definition

(* C4: in the list _get_typedefs returns, when the typedef X of an entry   *)
(* lists a dependency that resolves to Y, the definition of Y stands       *)
(* before every occurrence of the definition of X.                         *)
C4_DependenciesFirst ==
    pc = "done" =>
        \A p \in 1..Len(typedef_code) : \A x \in 1..Len(typedefs) :
            typedef_code[p] = typedefs[x].definition =>
                \A y \in DependsOn(x) :
                    \E q \in 1..(p - 1) : typedef_code[q] = typedefs[y].definition

C4_Witness ==
    /\ pc = "done"
    /\ \E x \in 1..Len(typedefs) :
          /\ DependsOn(x) # {}
          /\ Cardinality(Positions(typedefs[x].definition)) = 2

(* C5: the accumulator after every step, and the hash returned, are below  *)
(* 2^32, and the stub renders the hash with exactly 8 hex digits.          *)
C5_HashIs32Bit ==
    /\ \A k \in 1..Len(hash_log) :
          /\ IsU32(hash_log[k].hash)
          /\ \A m \in 1..Len(hash_log[k].accs) : IsU32(hash_log[k].accs[m])
    /\ files["asm"].exists =>
          \A k \in 1..Len(files["asm"].stubs) : files["asm"].stubs[k].hex_width = 8

(* C6, as claimed: of the n characters of the terminated name, floor(n/2)  *)
(* units are folded, the j-th made of the characters 2j and 2j+1 (from 0). *)
C6_DisjointPairs ==
    \A k \in 1..Len(hash_log) :
        LET name == hash_log[k].name
            units == hash_log[k].units
        IN  /\ Len(units) = Len(name) \div 2
            /\ \A j \in 1..Len(units) : units[j] = name[2 * j - 1] + 256 * name[2 * j]

(* C6, amended: the canonical, terminated name of n characters is folded   *)
(* as n - 1 overlapping little-endian units, the j-th made of the          *)
(* characters j and j+1 (from 0): every character but the first and the    *)
(* terminator is in two units, and the stub carries the last accumulator.  *)
C6_OverlappingPairs ==
    \A k \in 1..Len(hash_log) :
        LET name == hash_log[k].name
            units == hash_log[k].units
        IN  /\ name = Replace1(hash_log[k].function_name, function_prefix, Zw) \o Nul
            /\ Len(units) = Len(name) - 1
            /\ \A j \in 1..Len(units) : units[j] = name[j] + 256 * name[j + 1]
            /\ Len(hash_log[k].accs) = Len(units)
            /\ files["asm"].stubs[k].hash = hash_log[k].accs[Len(units)]

C6_Witness ==
    /\ pc = "done"
    /\ \E k \in 1..Len(hash_log) : Len(hash_log[k].name) = 5 /\ Len(hash_log[k].units) = 4
    /\ \E k \in 1..Len(hash_log) : Len(hash_log[k].name) = 4 /\ Len(hash_log[k].units) = 3

(* C7: for a requested name that starts with 'Nt', the header prototype    *)
(* and the stub label carry the name with its first 'Nt' replaced by the   *)
(* configured prefix, and the stub's hash is the hash the original name    *)
(* gets under the default prefix 'Nt' with the same seed.                  *)
C7_HashIgnoresPrefix ==
    pc = "done" =>
        \A k \in 1..Len(original_names) :
            StartsWith(original_names[k], Nt) =>
                LET renamed == Replace1(original_names[k], Nt, function_prefix)
                IN  /\ files["asm"].stubs[k].label = renamed
                    /\ files["h"].prototypes[k].name = renamed
                    /\ files["asm"].stubs[k].hash = _get_function_hash(Nt, seed, original_names[k])

C7_Witness ==
    /\ pc = "done"
    /\ function_prefix \notin {Nt, Zw}
    /\ \E k \in 1..Len(original_names) :
          /\ StartsWith(original_names[k], Nt)
          /\ files["asm"].stubs[k].label # original_names[k]

(* C8, as claimed: the rewrite changes nothing under the prefix 'Nt', and  *)
(* under any other prefix a rewrite of the names the last rewrite returned *)
(* leaves the names and the keys of the catalog as they are.               *)
C8_RewriteIdempotent ==
    [][(/\ pc = "rewrite"
        /\ function_prefix = Nt \/ function_names = last_renamed)
       => (/\ function_names' = function_names
           /\ Keys(prototypes') = Keys(prototypes))]_vars

(* C8, amended: the rewrite changes nothing under the prefix 'Nt', and     *)
(* under any other prefix a rewrite of the names the last rewrite returned *)
(* leaves the names and the catalog as they are when none of those names   *)
(* holds 'Nt' any more.                                                    *)
C8_RewriteIdempotentWithoutNt ==
    [][(/\ pc = "rewrite"
        /\ \/ function_prefix = Nt
           \/ /\ function_names = last_renamed
              /\ \A k \in 1..Len(function_names) : ~Contains(function_names[k], Nt))
       => (/\ function_names' = function_names
           /\ prototypes' = prototypes
           /\ err' = "none")]_vars

C8_Witness ==
    /\ pc = "write_c"
    /\ budget < MaxCalls - 1
    /\ function_prefix # Nt
    /\ function_names # <<>>
    /\ function_names = original_names
    /\ \A k \in 1..Len(function_names) :
          /\ ~Contains(function_names[k], Nt)
          /\ function_names[k] \notin Keys(Prototypes0)

(* C9, as claimed: no name without a typedef makes _get_typedefs raise.    *)
C9_NeverRaises == err # "StopIteration"

(* C9, amended: a parameter type that no typedef lists is left out of      *)
(* layer 0 and raises nothing; a dependency that no typedef lists is not   *)
(* skipped: the pass that meets it ends in StopIteration, so that          *)
(* _get_typedefs returns only when no layer holds such a dependency.       *)
C9_OnlyParameterTypesSkipped ==
    /\ InGetTypedefs =>
          /\ Range(typedef_layers[1]) = Layer0
          /\ \A k \in 1..(Len(typedef_layers) - 1) : \A j \in Range(typedef_layers[k]) :
                \A n \in typedefs[j].dependencies : Matches(n) # {}
    /\ pc = "done" => ~UnmatchedReachable
    /\ err = "StopIteration" =>
          /\ pc = "failed"
          /\ typedef_code = <<>>
          /\ files["h"].endif = FALSE
          /\ \E j \in Range(typedef_layers[Len(typedef_layers)]) :
                \E n \in typedefs[j].dependencies : Matches(n) = {}

C9_Witness ==
    /\ err = "StopIteration"
    /\ "X" \in Range(Lookup(prototypes, function_names[1]))
    /\ Len(typedef_layers) = 2

=============================================================================
